---- MODULE Spec2Model ----
(***************************************************************************)
(* request_sender.sender: RequestSender and HttpxRequestParameters.        *)
(*                                                                         *)
(* RequestSender keeps two class-level dictionaries, one of httpx.Client   *)
(* and one of httpx.AsyncClient objects, keyed by service name.  send and  *)
(* send_async look the client of the sender's service name up (creating it *)
(* when it is missing or closed), build the URL, and delegate to           *)
(* client.request with the dumped request parameters.                      *)
(*                                                                         *)
(* Python values are tagged records [type, val]; a dict is a function from *)
(* its keys to its values.  Client objects live in the sequence handles    *)
(* and are referred to by their index, which is their identity.            *)
(***************************************************************************)
EXTENDS Naturals, Sequences, FiniteSets, TLC

VARIABLES
    sender,                 \* the RequestSender instances constructed so far
    client_storage,         \* RequestSender.__client_storage
    async_client_storage,   \* RequestSender.__async_client_storage
    handles,                \* the httpx client objects constructed so far
    frame,                  \* per sender: the activation of send / send_async
    returned,               \* per mode and key: what the last lookup returned
    used,                   \* per sender and mode: the client its last call got
    provider_calls          \* per sender: how often its service_name function ran

vars == <<sender, client_storage, async_client_storage, handles, frame, returned, used,
          provider_calls>>

-----------------------------------------------------------------------------
(* Bounds of the model *)

\* how many client objects are constructed in one behaviour
MaxHandles == 3

\* the RequestSender instances of the program
SenderIds == { 1, 2 }

-----------------------------------------------------------------------------
(* Python values *)

None == [type |-> "NoneType"]

PyStr(s) == [type |-> "str", val |-> s]

PyInt(s) == [type |-> "int", val |-> s]

PyBool(s) == [type |-> "bool", val |-> s]

\* httpx.Timeout(timeout=s)
Timeout(s) == [type |-> "Timeout", val |-> s]

\* a zero-argument function returning ret
PyFunction(ret) == [type |-> "function", ret |-> ret]

PyDict(items) == [type |-> "dict", items |-> items]

\* httpx._client.USE_CLIENT_DEFAULT
USE_CLIENT_DEFAULT == [type |-> "UseClientDefault"]

callable(v) == v.type = "function"

IsStr(v) == v.type = "str"

EmptyDict == << >>

\* d.update(e) on dict items: the keys of e win
Update(d, e) == e @@ d

\* absence of a client: what dict.get(key, None) gives for a missing key
NoClient == 0

\* storage.get(key, None)
Get(storage, key) == IF key \in DOMAIN storage THEN storage[key] ELSE NoClient

\* storage[key] = value
Put(storage, key, value) == (key :> value) @@ storage

-----------------------------------------------------------------------------
(* Inputs *)

\* The constructor calls of the callers, in a fixed order, as
\* <<service_name, base_url, timeout, verify, client_kwargs>>: every argument
\* left at its default; the two senders of tests/test_classargs.py, the
\* second with a base URL that ends without a slash; a provider function with
\* a base URL that ends with a slash and client_kwargs that override timeout;
\* a provider function that returns no string; client_kwargs that repeat
\* headers.
SenderArgs ==
    << <<PyStr("Undefined"), None, Timeout("30.0"), PyBool("True"), None>>,
      <<PyStr("sender_1"), None, Timeout("30.0"), PyBool("True"), None>>,
      <<PyStr("sender_2"), PyStr("https://api.example.com"), Timeout("1"),
        PyBool("True"), None>>,
      <<PyFunction(PyStr("sender_1")), PyStr("https://api.example.com/"),
        Timeout("30.0"), PyBool("False"), PyDict("timeout" :> Timeout("5"))>>,
      <<PyFunction(PyInt("42")), None, Timeout("30.0"), PyBool("True"), None>>,
      <<PyStr("sender_2"), None, Timeout("30.0"), PyBool("True"),
        PyDict("headers" :> PyDict("X-Extra" :> PyStr("1")))>> >>

Methods == { "GET", "POST" }

UrlArgs == { "/widgets", "https://httpbin.org/get" }

Modes == { "sync", "async" }

\* The calls of the callers of two senders, as <<method, url, params,
\* use_base_url>>: the call of tests/test_classargs.py, and a POST of a JSON
\* payload that sets the base URL aside.  CallArgs is defined after
\* HttpxRequestParameters.

-----------------------------------------------------------------------------
(* HttpxRequestParameters *)

\* the fields of the model, in declaration order
Fields ==
    << "content", "data", "files", "json_data", "params", "headers",
       "cookies", "auth", "follow_redirects", "timeout", "extensions" >>

FieldNames == { Fields[n] : n \in 1..Len(Fields) }

\* the declared default of each field
FieldDefault(f) ==
    IF f \in { "auth", "follow_redirects", "timeout" }
    THEN USE_CLIENT_DEFAULT
    ELSE None

\* pydantic.Field(alias="json") on json_data; the other fields have no alias
Alias(f) == IF f = "json_data" THEN "json" ELSE f

\* HttpxRequestParameters(**kwargs): a field is populated by its alias (there
\* is no populate_by_name), a keyword that is the alias of no field is
\* ignored, and the fields not given hold their defaults
HttpxRequestParameters(kwargs) ==
    [type |-> "HttpxRequestParameters",
     fields_set |-> { f \in FieldNames : Alias(f) \in DOMAIN kwargs },
     values |-> [f \in FieldNames |->
                    IF Alias(f) \in DOMAIN kwargs THEN kwargs[Alias(f)] ELSE FieldDefault(f)]]

\* model_dump without by_alias: every field, under its own name
model_dump_by_name(params) ==
    [k \in FieldNames |-> params.values[k]]

\* params.model_dump(by_alias=True): every field, under its alias
model_dump(params) ==
    LET keys == { Alias(f) : f \in FieldNames }
        field(k) == CHOOSE f \in FieldNames : Alias(f) = k
    IN [k \in keys |-> params.values[field(k)]]

\* the params arguments of send: absent, an empty bag, a JSON payload,
\* a timeout with headers
ParamsArgs ==
    { None,
      HttpxRequestParameters(EmptyDict),
      HttpxRequestParameters("json" :> PyStr("{payload}")),
      HttpxRequestParameters(("timeout" :> Timeout("5")) @@
                             ("headers" :> PyDict("X-Trace" :> PyStr("t")))) }

CallArgs ==
    { <<"GET", "https://httpbin.org/get", None, TRUE>>,
      <<"POST", "/widgets", HttpxRequestParameters("json" :> PyStr("{payload}")), FALSE>> }

-----------------------------------------------------------------------------
(* RequestSender.__init__ *)

\* the instance __init__ leaves behind
RequestSender(service_name, base_url, timeout, verify, client_kwargs) ==
    LET name == IF callable(service_name) THEN service_name.ret ELSE service_name
        args == ("timeout" :> timeout) @@ ("verify" :> verify)
    IN [type |-> "RequestSender",
        service_name |-> name,
        base_url |-> base_url,
        additional_args |->
            IF client_kwargs # None THEN Update(args, client_kwargs.items) ELSE args]

Constructed(i) == sender[i] # None

-----------------------------------------------------------------------------
(* _make_headers and the client lookups *)

\* f"{__package__}/{metadata.version(__package__)}", one value per process
UserAgent == PyStr("request_sender/version")

\* _make_headers called without request_method: the default of line 145
make_headers_default_method(service_name, request_method) ==
    ("User-Agent" :> UserAgent) @@
    ("X-Service-Name" :> service_name) @@
    ("X-Request-Method" :> PyStr("async"))

make_headers(service_name, request_method) ==
    ("User-Agent" :> UserAgent) @@
    ("X-Service-Name" :> service_name) @@
    ("X-Request-Method" :> PyStr(request_method))

\* httpx.Client(headers=headers, **additional_args) and httpx.AsyncClient alike.
\* Python raises TypeError when additional_args repeats the keyword headers.
\* A header value that is no string is httpx's to accept or refuse: accepts.
ConstructorRaises(headers, additional_args, accepts) ==
    \/ "headers" \in DOMAIN additional_args
    \/ \E k \in DOMAIN headers : ~IsStr(headers[k]) /\ ~accepts

NewClient(cls, headers, additional_args) ==
    [cls |-> cls, headers |-> headers, args |-> additional_args, is_closed |-> FALSE]

\* a stored client that tests false
Truthy_falsy(client) == FALSE

\* truth value of a stored client in `if client := storage.get(...)`
Truthy(client) == client # NoClient

\* get_client without the reuse of lines 167-169: every lookup constructs
get_client_no_reuse(storage, cls, request_method, service_name, additional_args, accepts) ==
    LET args == IF additional_args = None THEN EmptyDict ELSE additional_args.items
        headers == make_headers(service_name, request_method)
        new == Len(handles) + 1
    IN IF ConstructorRaises(headers, args, accepts)
       THEN [ret |-> NoClient, exc |-> "TypeError", storage |-> storage, handles |-> handles]
       ELSE [ret |-> new, exc |-> "none",
             storage |-> Put(storage, service_name, new),
             handles |-> Append(handles, NewClient(cls, headers, args))]

\* get_client without the is_closed test of line 168: a stored client is
\* returned whatever its state
get_client_ignore_closed(storage, cls, request_method, service_name, additional_args, accepts) ==
    LET args == IF additional_args = None THEN EmptyDict ELSE additional_args.items
        client == Get(storage, service_name)
        headers == make_headers(service_name, request_method)
        new == Len(handles) + 1
    IN IF client # NoClient
       THEN [ret |-> client, exc |-> "none", storage |-> storage, handles |-> handles]
       ELSE IF ConstructorRaises(headers, args, accepts)
       THEN [ret |-> NoClient, exc |-> "TypeError", storage |-> storage, handles |-> handles]
       ELSE [ret |-> new, exc |-> "none",
             storage |-> Put(storage, service_name, new),
             handles |-> Append(handles, NewClient(cls, headers, args))]

\* get_client without the store of line 171: the new client is returned but
\* the storage keeps what it held
get_client_no_store(storage, cls, request_method, service_name, additional_args, accepts) ==
    LET args == IF additional_args = None THEN EmptyDict ELSE additional_args.items
        client == Get(storage, service_name)
        headers == make_headers(service_name, request_method)
        new == Len(handles) + 1
    IN IF client # NoClient /\ ~handles[client].is_closed
       THEN [ret |-> client, exc |-> "none", storage |-> storage, handles |-> handles]
       ELSE IF ConstructorRaises(headers, args, accepts)
       THEN [ret |-> NoClient, exc |-> "TypeError", storage |-> storage, handles |-> handles]
       ELSE [ret |-> new, exc |-> "none", storage |-> storage,
             handles |-> Append(handles, NewClient(cls, headers, args))]

\* get_client with one client for the whole class: any stored client serves
\* every service name
get_client_shared(storage, cls, request_method, service_name, additional_args, accepts) ==
    LET args == IF additional_args = None THEN EmptyDict ELSE additional_args.items
        client == IF DOMAIN storage = {} THEN NoClient
                  ELSE storage[CHOOSE k \in DOMAIN storage : TRUE]
        headers == make_headers(service_name, request_method)
        new == Len(handles) + 1
    IN IF client # NoClient /\ ~handles[client].is_closed
       THEN [ret |-> client, exc |-> "none", storage |-> storage, handles |-> handles]
       ELSE IF ConstructorRaises(headers, args, accepts)
       THEN [ret |-> NoClient, exc |-> "TypeError", storage |-> storage, handles |-> handles]
       ELSE [ret |-> new, exc |-> "none",
             storage |-> Put(storage, service_name, new),
             handles |-> Append(handles, NewClient(cls, headers, args))]

\* get_client that hands the caller's options to an open client it reuses
get_client_apply_options(storage, cls, request_method, service_name, additional_args, accepts) ==
    LET args == IF additional_args = None THEN EmptyDict ELSE additional_args.items
        client == Get(storage, service_name)
        headers == make_headers(service_name, request_method)
        new == Len(handles) + 1
    IN IF client # NoClient /\ ~handles[client].is_closed
       THEN [ret |-> client, exc |-> "none", storage |-> storage,
             handles |-> [handles EXCEPT ![client].args = args]]
       ELSE IF ConstructorRaises(headers, args, accepts)
       THEN [ret |-> NoClient, exc |-> "TypeError", storage |-> storage, handles |-> handles]
       ELSE [ret |-> new, exc |-> "none",
             storage |-> Put(storage, service_name, new),
             handles |-> Append(handles, NewClient(cls, headers, args))]

\* The body shared by __get_sync_client and __get_async_client: the outcome
\* of one lookup, as the returned client (or the exception raised) and the
\* storage and client objects it leaves behind.
get_client(storage, cls, request_method, service_name, additional_args, accepts) ==
    LET args == IF additional_args = None THEN EmptyDict ELSE additional_args.items
        client == Get(storage, service_name)
        headers == make_headers(service_name, request_method)
        new == Len(handles) + 1
    IN IF Truthy(client) /\ ~handles[client].is_closed
       THEN [ret |-> client, exc |-> "none", storage |-> storage, handles |-> handles]
       ELSE IF ConstructorRaises(headers, args, accepts)
       THEN [ret |-> NoClient, exc |-> "TypeError", storage |-> storage, handles |-> handles]
       ELSE [ret |-> new, exc |-> "none",
             storage |-> Put(storage, service_name, new),
             handles |-> Append(handles, NewClient(cls, headers, args))]

\* get_sync_client written as a copy of __get_async_client in which only
\* the storage and the client class were changed
get_sync_client_async_method(service_name, additional_args, accepts) ==
    get_client(client_storage, "Client", "async", service_name, additional_args, accepts)

get_sync_client(service_name, additional_args, accepts) ==
    get_client(client_storage, "Client", "sync", service_name, additional_args, accepts)

\* get_async_client written as a copy of __get_sync_client in which the
\* storage was not changed
get_async_client_sync_storage(service_name, additional_args, accepts) ==
    get_client(client_storage, "AsyncClient", "async", service_name, additional_args, accepts)

\* get_async_client that constructs a client for every call
get_async_client_per_call(service_name, additional_args, accepts) ==
    get_client_no_reuse(async_client_storage, "AsyncClient", "async", service_name,
                        additional_args, accepts)

get_async_client(service_name, additional_args, accepts) ==
    get_client(async_client_storage, "AsyncClient", "async", service_name, additional_args, accepts)

-----------------------------------------------------------------------------
(* send and send_async *)

Idle ==
    [pc |-> "idle", mode |-> "none", args |-> None, params |-> None,
     url |-> "", client |-> NoClient, requests |-> << >>, result |-> "none"]

\* build_url joining the two parts with a slash
build_url_slash(self, url, use_base_url) ==
    IF use_base_url /\ self.base_url # None
    THEN self.base_url.val \o "/" \o url
    ELSE url

\* the url the request is issued to
build_url(self, url, use_base_url) ==
    IF use_base_url /\ self.base_url # None
    THEN self.base_url.val \o url
    ELSE url

\* send_begin of a sender that keeps its provider function and resolves the
\* service name again in every call
send_begin_lazy_name(i, mode, method, url, params, use_base_url, accepts) ==
    LET self == sender[i]
        p == IF params # None THEN params ELSE HttpxRequestParameters(EmptyDict)
        got == IF mode = "sync"
               THEN get_sync_client(self.service_name, PyDict(self.additional_args), accepts)
               ELSE get_async_client(self.service_name, PyDict(self.additional_args), accepts)
        call == [method |-> method, url |-> url, params |-> params,
                 use_base_url |-> use_base_url]
    IN /\ Constructed(i)
       /\ frame[i].pc = "idle"
       /\ Len(got.handles) <= MaxHandles
       /\ handles' = got.handles
       /\ IF mode = "sync"
          THEN client_storage' = got.storage /\ UNCHANGED async_client_storage
          ELSE async_client_storage' = got.storage /\ UNCHANGED client_storage
       /\ IF got.exc = "none"
          THEN /\ frame' = [frame EXCEPT ![i] =
                    [pc |-> "request", mode |-> mode, args |-> call, params |-> p,
                     url |-> build_url(self, url, use_base_url), client |-> got.ret,
                     requests |-> << >>, result |-> "none"]]
               /\ returned' = [returned EXCEPT ![mode] = Put(@, self.service_name, got.ret)]
               /\ used' = [used EXCEPT ![i][mode] = got.ret]
          ELSE /\ frame' = [frame EXCEPT ![i] =
                    [pc |-> "done", mode |-> mode, args |-> call, params |-> p,
                     url |-> url, client |-> NoClient,
                     requests |-> << >>, result |-> got.exc]]
               /\ UNCHANGED <<returned, used>>
       /\ provider_calls' = [provider_calls EXCEPT ![i] = IF @ > 0 THEN @ + 1 ELSE @]
       /\ UNCHANGED sender

\* Lines 93-101 of send and 124-132 of send_async: default the parameters,
\* look the client up, build the url.  An exception of the lookup ends the
\* call.
send_begin(i, mode, method, url, params, use_base_url, accepts) ==
    LET self == sender[i]
        p == IF params # None THEN params ELSE HttpxRequestParameters(EmptyDict)
        got == IF mode = "sync"
               THEN get_sync_client(self.service_name, PyDict(self.additional_args), accepts)
               ELSE get_async_client(self.service_name, PyDict(self.additional_args), accepts)
        call == [method |-> method, url |-> url, params |-> params,
                 use_base_url |-> use_base_url]
    IN /\ Constructed(i)
       /\ frame[i].pc = "idle"
       /\ Len(got.handles) <= MaxHandles
       /\ handles' = got.handles
       /\ IF mode = "sync"
          THEN client_storage' = got.storage /\ UNCHANGED async_client_storage
          ELSE async_client_storage' = got.storage /\ UNCHANGED client_storage
       /\ IF got.exc = "none"
          THEN /\ frame' = [frame EXCEPT ![i] =
                    [pc |-> "request", mode |-> mode, args |-> call, params |-> p,
                     url |-> build_url(self, url, use_base_url), client |-> got.ret,
                     requests |-> << >>, result |-> "none"]]
               /\ returned' = [returned EXCEPT ![mode] = Put(@, self.service_name, got.ret)]
               /\ used' = [used EXCEPT ![i][mode] = got.ret]
          ELSE /\ frame' = [frame EXCEPT ![i] =
                    [pc |-> "done", mode |-> mode, args |-> call, params |-> p,
                     url |-> url, client |-> NoClient,
                     requests |-> << >>, result |-> got.exc]]
               /\ UNCHANGED <<returned, used>>
       /\ UNCHANGED <<sender, provider_calls>>

\* what client.request can answer: a response, or an error.
\* A closed client refuses the request with RuntimeError.
Outcomes == { "Response", "ConnectError" }

RequestOutcomes(client) ==
    IF handles[client].is_closed THEN { "RuntimeError" } ELSE Outcomes

\* the call client.request(method=method, url=url, **params.model_dump(by_alias=True))
RequestCall(f, outcome) ==
    [client |-> f.client, method |-> f.args.method, url |-> f.url,
     options |-> model_dump(f.params), outcome |-> outcome]

\* send_request that issues the request a second time when the first fails
send_request_retry(i, outcome) ==
    /\ frame[i].pc = "request"
    /\ outcome \in RequestOutcomes(frame[i].client)
    /\ \E second \in RequestOutcomes(frame[i].client) :
        frame' = [frame EXCEPT ![i] =
            IF outcome \in { "ConnectError", "RuntimeError" }
            THEN [@ EXCEPT !.pc = "done",
                           !.requests = <<RequestCall(frame[i], outcome),
                                          RequestCall(frame[i], second)>>,
                           !.result = second]
            ELSE [@ EXCEPT !.pc = "done",
                           !.requests = Append(@, RequestCall(frame[i], outcome)),
                           !.result = outcome]]
    /\ UNCHANGED <<sender, client_storage, async_client_storage, handles, returned, used, provider_calls>>

\* send_request that looks at is_closed once more and, when the client was
\* closed since the lookup, constructs and stores a replacement to send on
send_request_recheck(i, outcome) ==
    LET f == frame[i]
        self == sender[i]
        new == Len(handles) + 1
        fresh == [f EXCEPT !.client = new]
    IN /\ f.pc = "request"
       /\ IF handles[f.client].is_closed
          THEN /\ outcome \in Outcomes
               /\ new <= MaxHandles
               /\ handles' = Append(handles,
                    NewClient(IF f.mode = "sync" THEN "Client" ELSE "AsyncClient",
                              make_headers(self.service_name, f.mode),
                              self.additional_args))
               /\ IF f.mode = "sync"
                  THEN /\ client_storage' = Put(client_storage, self.service_name, new)
                       /\ UNCHANGED async_client_storage
                  ELSE /\ async_client_storage' =
                            Put(async_client_storage, self.service_name, new)
                       /\ UNCHANGED client_storage
               /\ frame' = [frame EXCEPT ![i] =
                    [fresh EXCEPT !.pc = "done",
                                  !.requests = Append(@, RequestCall(fresh, outcome)),
                                  !.result = outcome]]
          ELSE /\ outcome \in RequestOutcomes(f.client)
               /\ frame' = [frame EXCEPT ![i] =
                    [@ EXCEPT !.pc = "done",
                              !.requests = Append(@, RequestCall(f, outcome)),
                              !.result = outcome]]
               /\ UNCHANGED <<client_storage, async_client_storage, handles>>
       /\ UNCHANGED <<sender, returned, used, provider_calls>>

\* Lines 103-109 of send and 134-140 of send_async: one request on the
\* client, whose response or error is the call's own.
send_request(i, outcome) ==
    /\ frame[i].pc = "request"
    /\ outcome \in RequestOutcomes(frame[i].client)
    /\ frame' = [frame EXCEPT ![i] =
            [@ EXCEPT !.pc = "done",
                      !.requests = Append(@, RequestCall(frame[i], outcome)),
                      !.result = outcome]]
    /\ UNCHANGED <<sender, client_storage, async_client_storage, handles, returned, used, provider_calls>>

\* send_return of a send that closes the client it used before it returns
send_return_closing(i) ==
    /\ frame[i].pc = "done"
    /\ frame' = [frame EXCEPT ![i] = Idle]
    /\ handles' = IF frame[i].client # NoClient
                  THEN [handles EXCEPT ![frame[i].client].is_closed = TRUE]
                  ELSE handles
    /\ UNCHANGED <<sender, client_storage, async_client_storage, returned, used, provider_calls>>

\* the caller receives the response or the exception; the activation ends
send_return(i) ==
    /\ frame[i].pc = "done"
    /\ frame' = [frame EXCEPT ![i] = Idle]
    /\ UNCHANGED <<sender, client_storage, async_client_storage, handles, returned, used, provider_calls>>

-----------------------------------------------------------------------------
(* send run by threads: __get_sync_client one step at a time *)

\* Line 93 and lines 164-169: the thread reads the storage and the client's
\* is_closed.  An open client is returned at once and the thread goes on to
\* the request (lines 100-101); otherwise the thread is about to construct.
thread_check(i, method, url, params, use_base_url) ==
    LET self == sender[i]
        p == IF params # None THEN params ELSE HttpxRequestParameters(EmptyDict)
        client == Get(client_storage, self.service_name)
        call == [method |-> method, url |-> url, params |-> params,
                 use_base_url |-> use_base_url]
    IN /\ Constructed(i)
       /\ frame[i].pc = "idle"
       /\ IF Truthy(client) /\ ~handles[client].is_closed
          THEN /\ frame' = [frame EXCEPT ![i] =
                    [pc |-> "request", mode |-> "sync", args |-> call, params |-> p,
                     url |-> build_url(self, url, use_base_url), client |-> client,
                     requests |-> << >>, result |-> "none"]]
               /\ returned' = [returned EXCEPT !["sync"] = Put(@, self.service_name, client)]
               /\ used' = [used EXCEPT ![i]["sync"] = client]
          ELSE /\ frame' = [frame EXCEPT ![i] =
                    [pc |-> "create", mode |-> "sync", args |-> call, params |-> p,
                     url |-> url, client |-> NoClient,
                     requests |-> << >>, result |-> "none"]]
               /\ UNCHANGED <<returned, used>>
       /\ UNCHANGED <<sender, client_storage, async_client_storage, handles, provider_calls>>

\* thread_create that leaves an open client another thread stored meanwhile
\* in place (a setdefault instead of the assignment of line 171)
thread_create_keep_first(i, accepts) ==
    LET self == sender[i]
        headers == make_headers(self.service_name, "sync")
        new == Len(handles) + 1
        client == Get(client_storage, self.service_name)
    IN /\ frame[i].pc = "create"
       /\ IF ConstructorRaises(headers, self.additional_args, accepts)
          THEN /\ frame' = [frame EXCEPT ![i] = [@ EXCEPT !.pc = "done", !.result = "TypeError"]]
               /\ UNCHANGED <<client_storage, handles>>
          ELSE /\ new <= MaxHandles
               /\ handles' = Append(handles, NewClient("Client", headers, self.additional_args))
               /\ client_storage' =
                    IF client # NoClient /\ ~handles[client].is_closed
                    THEN client_storage
                    ELSE Put(client_storage, self.service_name, new)
               /\ frame' = [frame EXCEPT ![i] = [@ EXCEPT !.pc = "fetch"]]
       /\ UNCHANGED <<sender, async_client_storage, returned, used, provider_calls>>

\* Lines 171-177: the thread constructs a client and assigns it to the
\* storage under its service name, whatever the storage holds by now.
\* Clients are numbered in the order in which they are stored.
thread_create(i, accepts) ==
    LET self == sender[i]
        headers == make_headers(self.service_name, "sync")
        new == Len(handles) + 1
    IN /\ frame[i].pc = "create"
       /\ IF ConstructorRaises(headers, self.additional_args, accepts)
          THEN /\ frame' = [frame EXCEPT ![i] = [@ EXCEPT !.pc = "done", !.result = "TypeError"]]
               /\ UNCHANGED <<client_storage, handles>>
          ELSE /\ new <= MaxHandles
               /\ handles' = Append(handles, NewClient("Client", headers, self.additional_args))
               /\ client_storage' = Put(client_storage, self.service_name, new)
               /\ frame' = [frame EXCEPT ![i] = [@ EXCEPT !.pc = "fetch"]]
       /\ UNCHANGED <<sender, async_client_storage, returned, used, provider_calls>>

\* Line 179 and lines 100-101: the thread returns what the storage holds
\* under its service name now, and goes on to the request.
thread_fetch(i) ==
    LET self == sender[i]
        client == client_storage[self.service_name]
    IN /\ frame[i].pc = "fetch"
       /\ frame' = [frame EXCEPT ![i] =
            [@ EXCEPT !.pc = "request", !.client = client,
                      !.url = build_url(self, frame[i].args.url, frame[i].args.use_base_url)]]
       /\ returned' = [returned EXCEPT !["sync"] = Put(@, self.service_name, client)]
       /\ used' = [used EXCEPT ![i]["sync"] = client]
       /\ UNCHANGED <<sender, client_storage, async_client_storage, handles, provider_calls>>

-----------------------------------------------------------------------------
(* The environment *)

\* Construct of a class whose __init__ builds the sender's sync client at once
Construct_eager(i, service_name, base_url, timeout, verify, client_kwargs) ==
    LET self == RequestSender(service_name, base_url, timeout, verify, client_kwargs)
        got == get_sync_client(self.service_name, PyDict(self.additional_args), TRUE)
    IN /\ ~Constructed(i)
       /\ \A j \in SenderIds : j < i => Constructed(j)
       /\ sender' = [sender EXCEPT ![i] = self]
       /\ provider_calls' = [provider_calls EXCEPT ![i] =
               IF callable(service_name) THEN @ + 1 ELSE @]
       /\ handles' = got.handles
       /\ client_storage' = got.storage
       /\ UNCHANGED <<async_client_storage, frame, returned, used>>

\* sender i is constructed
Construct(i, service_name, base_url, timeout, verify, client_kwargs) ==
    /\ ~Constructed(i)
    /\ \A j \in SenderIds : j < i => Constructed(j)
    /\ sender' = [sender EXCEPT ![i] =
            RequestSender(service_name, base_url, timeout, verify, client_kwargs)]
    /\ provider_calls' = [provider_calls EXCEPT ![i] =
            IF callable(service_name) THEN @ + 1 ELSE @]
    /\ UNCHANGED <<client_storage, async_client_storage, handles, frame, returned, used>>

\* somebody closes a client: client.close() or await client.aclose()
Close(h) ==
    /\ h \in 1..Len(handles)
    /\ ~handles[h].is_closed
    /\ handles' = [handles EXCEPT ![h].is_closed = TRUE]
    /\ UNCHANGED <<sender, client_storage, async_client_storage, frame, returned, used, provider_calls>>

-----------------------------------------------------------------------------
(* The program: callers that issue one call at a time *)

Init ==
    /\ sender = [i \in SenderIds |-> None]
    /\ client_storage = EmptyDict
    /\ async_client_storage = EmptyDict
    /\ handles = << >>
    /\ frame = [i \in SenderIds |-> Idle]
    /\ returned = [m \in Modes |-> EmptyDict]
    /\ used = [i \in SenderIds |-> [m \in Modes |-> NoClient]]
    /\ provider_calls = [i \in SenderIds |-> 0]

\* the sender each constructor call of SenderArgs leaves behind
SenderRecords ==
    [n \in 1..Len(SenderArgs) |->
        RequestSender(SenderArgs[n][1], SenderArgs[n][2], SenderArgs[n][3],
                      SenderArgs[n][4], SenderArgs[n][5])]

NoCallInFlight == \A i \in SenderIds : frame[i].pc = "idle"

\* Two senders, constructed in every way of SenderArgs, issuing the calls of
\* CallArgs in both modes.  The senders are interchangeable, so the second
\* one's constructor call is taken no earlier in SenderArgs than the first
\* one's.
Next ==
    \/ \E i \in SenderIds, n \in 1..Len(SenderArgs) :
            /\ \A j \in SenderIds : j < i => \E k \in 1..n : sender[j] = SenderRecords[k]
            /\ Construct(i, SenderArgs[n][1], SenderArgs[n][2], SenderArgs[n][3],
                         SenderArgs[n][4], SenderArgs[n][5])
    \/ \E i \in SenderIds, m \in Modes, c \in CallArgs, a \in BOOLEAN :
            NoCallInFlight /\ send_begin(i, m, c[1], c[2], c[3], c[4], a)
    \/ \E i \in SenderIds, o \in Outcomes \cup { "RuntimeError" } : send_request(i, o)
    \/ \E i \in SenderIds : send_return(i)
    \/ \E h \in 1..MaxHandles : Close(h)

Spec == Init /\ [][Next]_vars

\* One sender, constructed in every way of SenderArgs, issuing every call
\* that Methods, UrlArgs, ParamsArgs and use_base_url allow, in both modes.
NextCall ==
    \/ \E n \in 1..Len(SenderArgs) :
            Construct(1, SenderArgs[n][1], SenderArgs[n][2], SenderArgs[n][3],
                         SenderArgs[n][4], SenderArgs[n][5])
    \/ \E m \in Modes, me \in Methods, u \in UrlArgs, p \in ParamsArgs,
          ub \in BOOLEAN, a \in BOOLEAN :
            NoCallInFlight /\ send_begin(1, m, me, u, p, ub, a)
    \/ \E o \in Outcomes \cup { "RuntimeError" } : send_request(1, o)
    \/ send_return(1)
    \/ \E h \in 1..MaxHandles : Close(h)

SpecCall == Init /\ [][NextCall]_vars

-----------------------------------------------------------------------------
(* The program: send called from two threads at once *)

\* Two senders, each called by a thread of its own; the threads' steps
\* through __get_sync_client interleave freely.
NextThreads ==
    \/ \E i \in SenderIds, n \in 1..Len(SenderArgs) :
            /\ \A j \in SenderIds : j < i => \E k \in 1..n : sender[j] = SenderRecords[k]
            /\ Construct(i, SenderArgs[n][1], SenderArgs[n][2], SenderArgs[n][3],
                         SenderArgs[n][4], SenderArgs[n][5])
    \/ \E i \in SenderIds, c \in CallArgs : thread_check(i, c[1], c[2], c[3], c[4])
    \/ \E i \in SenderIds, a \in BOOLEAN : thread_create(i, a)
    \/ \E i \in SenderIds : thread_fetch(i)
    \/ \E i \in SenderIds, o \in Outcomes \cup { "RuntimeError" } : send_request(i, o)
    \/ \E i \in SenderIds : send_return(i)
    \/ \E h \in 1..MaxHandles : Close(h)

SpecThreads == Init /\ [][NextThreads]_vars

-----------------------------------------------------------------------------
(* The program: send_async called from two tasks of one event loop *)

\* Two senders, each called by a task of its own.  A task runs from the
\* start of send_async to its only await, the request, without another task
\* running in between: lines 124-132 hold no await, so they are one step.
\* The other task may run while this one waits for its response.
NextTasks ==
    \/ \E i \in SenderIds, n \in 1..Len(SenderArgs) :
            /\ \A j \in SenderIds : j < i => \E k \in 1..n : sender[j] = SenderRecords[k]
            /\ Construct(i, SenderArgs[n][1], SenderArgs[n][2], SenderArgs[n][3],
                         SenderArgs[n][4], SenderArgs[n][5])
    \/ \E i \in SenderIds, c \in CallArgs, a \in BOOLEAN :
            send_begin(i, "async", c[1], c[2], c[3], c[4], a)
    \/ \E i \in SenderIds, o \in Outcomes \cup { "RuntimeError" } : send_request(i, o)
    \/ \E i \in SenderIds : send_return(i)
    \/ \E h \in 1..MaxHandles : Close(h)

SpecTasks == Init /\ [][NextTasks]_vars

-----------------------------------------------------------------------------
(* Properties *)

Storage(m) == IF m = "sync" THEN client_storage ELSE async_client_storage

\* the storage of mode m after the step
StorageNext(m) == IF m = "sync" THEN client_storage' ELSE async_client_storage'

HandleIds == 1..Len(handles)

\* the service name and the mode a client was constructed for
KeyOf(h) == handles[h].headers["X-Service-Name"]

ModeOf(h) == handles[h].headers["X-Request-Method"].val

IsOpen(h) == ~handles[h].is_closed

\* in this step the lookup of sender i's call returned a client
LookupReturned(i) == frame[i].pc = "idle" /\ frame'[i].pc = "request"

\* C1: when a lookup for a service name and mode follows a lookup for the
\* same name and mode whose client has not been closed since, it returns
\* that same client and constructs none, whatever the options of the caller.
C1_SameHandleWhileOpen ==
    [][\A i \in SenderIds :
        LookupReturned(i) =>
            LET prev == Get(returned[frame'[i].mode], sender[i].service_name)
            IN (prev # NoClient /\ IsOpen(prev)) =>
                    /\ frame'[i].client = prev
                    /\ handles' = handles]_vars

\* a call got a client that was constructed with other options than its own
C1_Witness ==
    \E i \in SenderIds :
        /\ frame[i].pc = "request"
        /\ IsOpen(frame[i].client)
        /\ handles[frame[i].client].args # sender[i].additional_args

\* C2: when the client stored under a service name is closed, the next
\* lookup for that name and mode that returns, returns a client constructed
\* in that lookup, open, distinct from the closed one and stored under the
\* name in its place.
C2_ClosedHandleReplaced ==
    [][\A i \in SenderIds :
        LookupReturned(i) =>
            LET m == frame'[i].mode
                k == sender[i].service_name
                old == Get(Storage(m), k)
                new == frame'[i].client
            IN (old # NoClient /\ ~IsOpen(old)) =>
                    /\ new = Len(handles) + 1
                    /\ Len(handles') = Len(handles) + 1
                    /\ new # old
                    /\ ~handles'[new].is_closed
                    /\ Get(StorageNext(m), k) = new]_vars

\* a call holds the client that replaced a closed one under the same name
C2_Witness ==
    \E i \in SenderIds, old \in HandleIds :
        /\ frame[i].pc = "request"
        /\ old < frame[i].client
        /\ ~IsOpen(old)
        /\ KeyOf(old) = sender[i].service_name
        /\ ModeOf(old) = frame[i].mode
        /\ Get(Storage(frame[i].mode), sender[i].service_name) = frame[i].client

\* C3: of the clients constructed for one service name and mode at most one
\* is open, and an open one is the client stored under that name.
C3_AtMostOneOpen ==
    /\ \A g, h \in HandleIds :
            (KeyOf(g) = KeyOf(h) /\ ModeOf(g) = ModeOf(h) /\ IsOpen(g) /\ IsOpen(h)) => g = h
    /\ \A h \in HandleIds :
            IsOpen(h) => Get(Storage(ModeOf(h)), KeyOf(h)) = h

\* three clients were constructed for one name and mode, and only the stored
\* one is open
C3_Witness ==
    \E g, h \in HandleIds :
        /\ g # h
        /\ KeyOf(g) = KeyOf(h) /\ ModeOf(g) = ModeOf(h)
        /\ ~IsOpen(g) /\ IsOpen(h)
        /\ Get(Storage(ModeOf(h)), KeyOf(h)) = h
        /\ \E f \in HandleIds \ {g, h} : KeyOf(f) = KeyOf(h) /\ ModeOf(f) = ModeOf(h)

\* C4: the clients the lookups of one mode returned for two distinct service
\* names are two distinct clients, and their headers have the same keys and
\* the same values except under X-Service-Name.
C4_DistinctNamesDistinctHandles ==
    \A m \in Modes : \A k1, k2 \in DOMAIN returned[m] :
        k1 # k2 =>
            LET h1 == handles[returned[m][k1]].headers
                h2 == handles[returned[m][k2]].headers
            IN /\ returned[m][k1] # returned[m][k2]
               /\ DOMAIN h1 = DOMAIN h2
               /\ \A key \in DOMAIN h1 : key # "X-Service-Name" => h1[key] = h2[key]
               /\ h1["X-Service-Name"] # h2["X-Service-Name"]

\* sync lookups have returned clients for sender_1 and for sender_2
C4_Witness ==
    /\ { PyStr("sender_1"), PyStr("sender_2") } \subseteq DOMAIN returned["sync"]
    /\ handles[returned["sync"][PyStr("sender_1")]].headers["X-Service-Name"] = PyStr("sender_1")
    /\ handles[returned["sync"][PyStr("sender_2")]].headers["X-Service-Name"] = PyStr("sender_2")

\* C5: two distinct senders of one service name whose last calls of a mode
\* got clients that are both still open got the same client, and so the
\* same headers.
C5_SameNameSharesHandle ==
    \A i, j \in SenderIds : \A m \in Modes :
        ( /\ i # j
          /\ Constructed(i) /\ Constructed(j)
          /\ sender[i].service_name = sender[j].service_name
          /\ used[i][m] # NoClient /\ used[j][m] # NoClient
          /\ IsOpen(used[i][m]) /\ IsOpen(used[j][m]) )
        => /\ used[i][m] = used[j][m]
           /\ handles[used[i][m]].headers = handles[used[j][m]].headers

\* two senders left at the default name have shared a sync client and an
\* async client
C5_Witness ==
    /\ sender[1] # None /\ sender[2] # None
    /\ sender[1].service_name = PyStr("Undefined")
    /\ sender[2].service_name = PyStr("Undefined")
    /\ \A m \in Modes :
            /\ used[1][m] # NoClient
            /\ used[1][m] = used[2][m]
            /\ IsOpen(used[1][m])

\* C6: the headers of every client hold exactly User-Agent, X-Service-Name
\* and X-Request-Method; the method is sync for an httpx.Client and async for
\* an httpx.AsyncClient; and the client a call of send (send_async) got
\* carries the sender's service name and the method sync (async).
C6_ThreeFixedHeaders ==
    /\ \A h \in HandleIds :
            /\ DOMAIN handles[h].headers = { "User-Agent", "X-Service-Name", "X-Request-Method" }
            /\ handles[h].headers["User-Agent"] = UserAgent
            /\ handles[h].headers["X-Request-Method"] =
                    IF handles[h].cls = "Client" THEN PyStr("sync") ELSE PyStr("async")
    /\ \A i \in SenderIds :
            frame[i].pc = "request" =>
                /\ handles[frame[i].client].headers["X-Service-Name"] = sender[i].service_name
                /\ handles[frame[i].client].headers["X-Request-Method"] = PyStr(frame[i].mode)
                /\ handles[frame[i].client].cls =
                        IF frame[i].mode = "sync" THEN "Client" ELSE "AsyncClient"

\* a call of send holds a client while an async client of the same service
\* name exists
C6_Witness ==
    \E i \in SenderIds, h \in HandleIds :
        /\ frame[i].pc = "request" /\ frame[i].mode = "sync"
        /\ handles[h].cls = "AsyncClient"
        /\ KeyOf(h) = sender[i].service_name

\* the request a finished call issued, if it issued one
Issued(i) == frame[i].pc = "done" /\ Len(frame[i].requests) > 0

\* C7: the url of the request is base_url followed by url, character for
\* character, when use_base_url is true and the sender has a base URL, and
\* is url itself otherwise.
C7_UrlIsLiteralConcatenation ==
    \A i \in SenderIds :
        Issued(i) =>
            LET a == frame[i].args
                base == sender[i].base_url
                r == frame[i].requests[1]
            IN /\ (a.use_base_url /\ base # None) => r.url = base.val \o a.url
               /\ (~a.use_base_url \/ base = None) => r.url = a.url

\* a request went to a url that keeps the slash of the base URL and the
\* slash of the path
C7_Witness ==
    \E i \in SenderIds :
        /\ Issued(i)
        /\ frame[i].args.use_base_url
        /\ frame[i].args.url = "/widgets"
        /\ frame[i].requests[1].url = "https://api.example.com//widgets"

\* the keys client.request takes from the parameters
WireKeys ==
    { "content", "data", "files", "json", "params", "headers", "cookies",
      "auth", "follow_redirects", "timeout", "extensions" }

\* C8 as claimed: the options of the request hold the JSON payload under json
\* and hold no key for a field the caller left unset.
C8_UnsetFieldsOmitted ==
    \A i \in SenderIds :
        Issued(i) =>
            LET p == frame[i].params
                o == frame[i].requests[1].options
            IN /\ DOMAIN o = { Alias(f) : f \in p.fields_set }
               /\ "json_data" \in p.fields_set => o["json"] = p.values["json_data"]

\* C8 as amended: the options of the request hold all eleven keys, the JSON
\* payload under json; a field the caller set holds the caller's value and a
\* field left unset holds its declared default: USE_CLIENT_DEFAULT for auth,
\* follow_redirects and timeout, None for the others.
C8_EveryFieldDumped ==
    \A i \in SenderIds :
        Issued(i) =>
            LET p == frame[i].params
                o == frame[i].requests[1].options
            IN /\ DOMAIN o = WireKeys
               /\ o["json"] = p.values["json_data"]
               /\ \A f \in FieldNames \ { "json_data" } : o[f] = p.values[f]
               /\ \A f \in FieldNames \ p.fields_set :
                    o[Alias(f)] = IF f \in { "auth", "follow_redirects", "timeout" }
                                  THEN USE_CLIENT_DEFAULT ELSE None
               /\ frame[i].args.params = None => p.fields_set = {}

\* a request was issued for a call without params, with all eleven options
C8_Witness ==
    \E i \in SenderIds :
        /\ Issued(i)
        /\ frame[i].args.params = None
        /\ Cardinality(DOMAIN frame[i].requests[1].options) = Len(Fields)
        /\ frame[i].requests[1].options["json"] = None
        /\ frame[i].requests[1].options["timeout"] = USE_CLIENT_DEFAULT

\* C9 as claimed: every sender that exists has a string for its service
\* name, and every key of the two storages is a string.
C9_NonStringNameRejected ==
    /\ \A i \in SenderIds : Constructed(i) => IsStr(sender[i].service_name)
    /\ \A m \in Modes : \A k \in DOMAIN Storage(m) : IsStr(k)

\* C10: a call that got its client issues one request on that client and
\* ends with the answer of that request, response or error, as its own;
\* the step changes neither storage nor any client; no call issues a second
\* request.
C10_OneRequestNoRetry ==
    [][\A i \in SenderIds :
        /\ Len(frame'[i].requests) <= 1
        /\ (frame[i].pc = "request" /\ frame'[i] # frame[i]) =>
                /\ frame'[i].pc = "done"
                /\ Len(frame'[i].requests) = 1
                /\ frame'[i].requests[1].client = frame[i].client
                /\ frame'[i].result = frame'[i].requests[1].outcome
                /\ client_storage' = client_storage
                /\ async_client_storage' = async_client_storage
                /\ handles' = handles]_vars

\* a call ended with the error of its one request, and the storage still
\* maps the service name to the client of the call
C10_Witness ==
    \E i \in SenderIds :
        /\ Issued(i)
        /\ frame[i].result = "ConnectError"
        /\ frame[i].requests[1].outcome = "ConnectError"
        /\ Get(Storage(frame[i].mode), sender[i].service_name) = frame[i].client

\* C11: once a sender exists, no step changes its service name, base URL or
\* client options; its provider function, if it was given one, has run once
\* when the sender exists and never runs again.
C11_ConfigFixedProviderOnce ==
    [][\A i \in SenderIds :
        /\ Constructed(i) => (sender'[i] = sender[i] /\ provider_calls'[i] = provider_calls[i])
        /\ ~Constructed(i) => provider_calls[i] = 0
        /\ Constructed(i)' =>
                \E n \in 1..Len(SenderArgs) :
                    /\ sender'[i] = SenderRecords[n]
                    /\ provider_calls'[i] = IF callable(SenderArgs[n][1]) THEN 1 ELSE 0]_vars

\* a sender that was given a provider function has finished calls in both
\* modes and is in its next call
C11_Witness ==
    \E i \in SenderIds :
        /\ Constructed(i)
        /\ provider_calls[i] = 1
        /\ sender[i].service_name = PyStr("sender_1")
        /\ \A m \in Modes : used[i][m] # NoClient
        /\ frame[i].pc = "done"

\* C12: a thread whose check found no open client constructs one and assigns
\* it to the storage whatever another thread stored in between: the client
\* stored before stays as it was, open if it was open, and is no longer the
\* one stored; so an open sync client that is not the one stored under its
\* name has been overwritten by a later one.
C12_RacingThreadsBothConstruct ==
    [][/\ \A i \in SenderIds :
            (frame[i].pc = "create" /\ frame'[i].pc = "fetch") =>
                /\ Len(handles') = Len(handles) + 1
                /\ Get(client_storage', sender[i].service_name) = Len(handles')
                /\ handles'[Len(handles')].headers["X-Service-Name"] = sender[i].service_name
                /\ ~handles'[Len(handles')].is_closed
                /\ \A h \in HandleIds : handles'[h] = handles[h]
       /\ \A h \in HandleIds' :
            (ModeOf(h)' = "sync" /\ ~handles'[h].is_closed
                /\ Get(client_storage', KeyOf(h)') # h) =>
                Get(client_storage', KeyOf(h)') > h]_vars

\* two threads both found no open client for the same name and both
\* constructed one: two open sync clients carry that name, and the one stored
\* first is no longer in the storage
C12_Witness ==
    \E i, j \in SenderIds : \E g, h \in HandleIds :
        /\ i # j /\ g < h
        /\ frame[i].pc = "fetch" /\ frame[j].pc = "fetch"
        /\ sender[i].service_name = sender[j].service_name
        /\ KeyOf(g) = sender[i].service_name /\ KeyOf(h) = sender[i].service_name
        /\ ModeOf(g) = "sync" /\ ModeOf(h) = "sync"
        /\ IsOpen(g) /\ IsOpen(h)
        /\ client_storage[sender[i].service_name] = h

\* where the entry of service name k stands in the storage of mode m
EntryState(m, k) ==
    IF k \notin DOMAIN Storage(m) THEN "absent"
    ELSE IF handles[Storage(m)[k]].is_closed THEN "closed" ELSE "open"

\* C13: in every step each entry of each storage either stays in its state
\* (an open entry keeping its client), or goes from absent or closed to open
\* by a lookup for its name and mode that constructs the client, or goes from
\* open to closed by a close from outside, which changes no call and no
\* storage; no key leaves a storage, and no step of a sender or of a call
\* closes or changes a client.
C13_EntryLifecycle ==
    [][/\ \A m \in Modes :
            /\ DOMAIN Storage(m) \subseteq DOMAIN Storage(m)'
            /\ \A k \in DOMAIN Storage(m)' :
                \/ /\ EntryState(m, k)' = EntryState(m, k)
                   /\ Storage(m)'[k] = Storage(m)[k]
                \/ /\ EntryState(m, k) \in { "absent", "closed" }
                   /\ EntryState(m, k)' = "open"
                   /\ Storage(m)'[k] = Len(handles) + 1
                   /\ \E i \in SenderIds :
                        /\ LookupReturned(i)
                        /\ sender[i].service_name = k
                        /\ frame'[i].mode = m
                        /\ frame'[i].client = Storage(m)'[k]
                \/ /\ EntryState(m, k) = "open"
                   /\ EntryState(m, k)' = "closed"
                   /\ Storage(m)'[k] = Storage(m)[k]
                   /\ frame' = frame /\ sender' = sender
       /\ (frame' # frame \/ sender' # sender) =>
            \A h \in HandleIds : handles'[h] = handles[h]]_vars

\* one name's sync entry has been open, closed and open again while its
\* async entry is closed and another name has no sync entry yet
C13_Witness ==
    \E k \in DOMAIN client_storage : \E g \in HandleIds :
        /\ EntryState("sync", k) = "open"
        /\ g < client_storage[k] /\ KeyOf(g) = k /\ ModeOf(g) = "sync" /\ ~IsOpen(g)
        /\ EntryState("async", k) = "closed"
        /\ \E i \in SenderIds :
            Constructed(i) /\ EntryState("sync", sender[i].service_name) = "absent"

\* C14: after every step, each client stored in the sync storage under a
\* name carries that name as X-Service-Name and "sync" as X-Request-Method,
\* each client of the async storage its name and "async"; every request a
\* call has issued went through a client tagged with its sender's name and
\* the call's mode; and no step changes the headers of a client that exists.
C14_StoredClientsTagged ==
    [][/\ \A m \in Modes : \A k \in DOMAIN Storage(m)' :
            /\ handles'[Storage(m)'[k]].headers["X-Service-Name"] = k
            /\ handles'[Storage(m)'[k]].headers["X-Request-Method"] = PyStr(m)
            /\ handles'[Storage(m)'[k]].cls = IF m = "sync" THEN "Client" ELSE "AsyncClient"
       /\ \A i \in SenderIds : \A r \in 1..Len(frame'[i].requests) :
            /\ handles'[frame'[i].requests[r].client].headers["X-Service-Name"] =
                    sender'[i].service_name
            /\ handles'[frame'[i].requests[r].client].headers["X-Request-Method"] =
                    PyStr(frame'[i].mode)
       /\ \A h \in HandleIds : handles'[h].headers = handles[h].headers]_vars

\* one name has a client in each storage, and a send of a sender of that
\* name has issued its request on the sync one
C14_Witness ==
    \E i \in SenderIds :
        /\ frame[i].pc = "done" /\ frame[i].mode = "sync"
        /\ Len(frame[i].requests) = 1
        /\ sender[i].service_name \in DOMAIN client_storage
        /\ sender[i].service_name \in DOMAIN async_client_storage
        /\ frame[i].requests[1].client = client_storage[sender[i].service_name]
        /\ ModeOf(client_storage[sender[i].service_name]) = "sync"
        /\ ModeOf(async_client_storage[sender[i].service_name]) = "async"

\* in this step sender i's call of mode m went through its lookup, which
\* returned a client or raised
LookupRan(i, m) ==
    frame[i].pc = "idle" /\ frame'[i].pc \in { "request", "done" } /\ frame'[i].mode = m

\* the storage d without its entry for k
Without(d, k) == [x \in DOMAIN d \ { k } |-> d[x]]

\* C15: the lookup of a send of the sender named k leaves the async storage
\* as it is and changes in the sync storage at most the entry of k; the
\* lookup of a send_async leaves the sync storage as it is and changes in
\* the async storage at most the entry of k; a lookup that finds an open
\* client changes neither storage and constructs nothing; the rest of a
\* call changes neither storage.
C15_StoragesIndependent ==
    [][\A i \in SenderIds :
        /\ LookupRan(i, "sync") =>
            /\ async_client_storage' = async_client_storage
            /\ Without(client_storage', sender[i].service_name) =
                    Without(client_storage, sender[i].service_name)
        /\ LookupRan(i, "async") =>
            /\ client_storage' = client_storage
            /\ Without(async_client_storage', sender[i].service_name) =
                    Without(async_client_storage, sender[i].service_name)
        /\ \A m \in Modes :
            (/\ LookupRan(i, m)
             /\ EntryState(m, sender[i].service_name) = "open") =>
                /\ client_storage' = client_storage
                /\ async_client_storage' = async_client_storage
                /\ handles' = handles
        /\ (frame'[i] # frame[i] /\ frame[i].pc # "idle") =>
                /\ client_storage' = client_storage
                /\ async_client_storage' = async_client_storage]_vars

\* a send_async has just constructed the async client of its name while the
\* sync storage holds open clients for this name and for another one
C15_Witness ==
    \E i, j \in SenderIds :
        /\ Constructed(i) /\ Constructed(j)
        /\ frame[i].pc = "request" /\ frame[i].mode = "async"
        /\ frame[i].client = Len(handles)
        /\ sender[i].service_name # sender[j].service_name
        /\ EntryState("sync", sender[i].service_name) = "open"
        /\ EntryState("sync", sender[j].service_name) = "open"
        /\ EntryState("async", sender[j].service_name) = "absent"

\* C16: a step that constructs a sender changes no storage and constructs no
\* client; a client comes into being only in the lookup of a send or
\* send_async, one at a time, for the calling sender's name and the call's
\* mode; so after every step a storage holds an entry exactly for the names
\* a lookup of its mode has returned for, and every client that exists was
\* constructed for such a name.
C16_LazyCreation ==
    [][/\ sender' # sender =>
            /\ client_storage' = client_storage
            /\ async_client_storage' = async_client_storage
            /\ handles' = handles
       /\ Len(handles') # Len(handles) =>
            /\ Len(handles') = Len(handles) + 1
            /\ \E i \in SenderIds :
                /\ LookupReturned(i)
                /\ frame'[i].client = Len(handles')
                /\ handles'[Len(handles')].headers =
                        make_headers(sender[i].service_name, frame'[i].mode)
       /\ \A m \in Modes : DOMAIN Storage(m)' = DOMAIN returned'[m]
       /\ \A h \in HandleIds' :
            handles'[h].headers["X-Service-Name"] \in
                DOMAIN returned'[handles'[h].headers["X-Request-Method"].val]]_vars

\* both senders exist under different names, the first has sent in one mode
\* only and the second has not sent at all: one client exists, and neither
\* storage holds an entry for the second sender's name
C16_Witness ==
    /\ \A i \in SenderIds : Constructed(i)
    /\ sender[1].service_name # sender[2].service_name
    /\ Len(handles) = 1
    /\ used[1]["sync"] = 1 /\ used[1]["async"] = NoClient
    /\ \A m \in Modes : used[2][m] = NoClient
    /\ DOMAIN client_storage = { sender[1].service_name }
    /\ DOMAIN async_client_storage = {}
    /\ frame[1].pc = "idle"

\* C17: no step changes the options a client was constructed with; a lookup
\* that returns a client that existed leaves every client as it was, whatever
\* the calling sender's options are; a lookup that returns a new client found
\* the entry absent or closed and gave the new client the calling sender's
\* options.
C17_OptionsOfTheCreator ==
    [][/\ \A h \in HandleIds : handles'[h].args = handles[h].args
       /\ \A i \in SenderIds :
            LookupReturned(i) =>
                IF frame'[i].client \in HandleIds
                THEN /\ handles' = handles
                     /\ IsOpen(frame'[i].client)
                ELSE /\ EntryState(frame'[i].mode, sender[i].service_name)
                            \in { "absent", "closed" }
                     /\ handles'[frame'[i].client].args = sender[i].additional_args]_vars

\* two senders of one name with different options: the first one's client
\* was closed, the second one's call constructed the replacement with the
\* second one's options, and the first sender's next call got that client
C17_Witness ==
    \E i, j \in SenderIds : \E g, h \in HandleIds : \E m \in Modes :
        /\ Constructed(i) /\ Constructed(j)
        /\ sender[i].service_name = sender[j].service_name
        /\ sender[i].additional_args # sender[j].additional_args
        /\ g < h
        /\ KeyOf(g) = sender[i].service_name /\ KeyOf(h) = sender[i].service_name
        /\ ModeOf(g) = m /\ ModeOf(h) = m
        /\ ~IsOpen(g) /\ handles[g].args = sender[i].additional_args
        /\ IsOpen(h) /\ handles[h].args = sender[j].additional_args
        /\ frame[i].pc = "request" /\ frame[i].mode = m /\ frame[i].client = h

\* C18: a call that holds the client its lookup returned keeps that client
\* when the client is closed from outside; its next step then issues the one
\* request on the closed client, ends the call with the client's
\* RuntimeError, constructs nothing and leaves both storages as they are, so
\* the closed client stays stored until a later lookup replaces it.
C18_ClosedAfterLookup ==
    [][\A i \in SenderIds :
        /\ (frame[i].pc = "request" /\ handles' # handles) =>
                /\ frame'[i] = frame[i]
                /\ client_storage' = client_storage
                /\ async_client_storage' = async_client_storage
        /\ (/\ frame[i].pc = "request"
            /\ frame'[i] # frame[i]
            /\ handles[frame[i].client].is_closed) =>
                /\ frame'[i].pc = "done"
                /\ frame'[i].client = frame[i].client
                /\ Len(frame'[i].requests) = 1
                /\ frame'[i].requests[1].client = frame[i].client
                /\ frame'[i].requests[1].outcome = "RuntimeError"
                /\ frame'[i].result = "RuntimeError"
                /\ handles' = handles
                /\ client_storage' = client_storage
                /\ async_client_storage' = async_client_storage]_vars

\* a send whose lookup constructed a client that was closed before the
\* request has ended with RuntimeError: that closed client is still the one
\* stored under the sender's name and no other client exists
C18_Witness ==
    \E i \in SenderIds :
        /\ frame[i].pc = "done" /\ frame[i].mode = "sync"
        /\ frame[i].result = "RuntimeError"
        /\ Len(frame[i].requests) = 1
        /\ frame[i].requests[1].client = frame[i].client
        /\ ~IsOpen(frame[i].client)
        /\ client_storage[sender[i].service_name] = frame[i].client
        /\ Len(handles) = 1

\* C19: with send_async calls of two tasks overlapping in every way the
\* event loop allows, a lookup constructs an async client only when the
\* entry of its name is absent or closed, and the entry is open afterwards;
\* so after every step at most one of the async clients of a name is open,
\* and an open one is the one stored.
C19_OneAsyncClientPerPeriod ==
    [][/\ Len(handles') # Len(handles) =>
            /\ Len(handles') = Len(handles) + 1
            /\ \E k \in DOMAIN async_client_storage' :
                /\ k = handles'[Len(handles')].headers["X-Service-Name"]
                /\ EntryState("async", k) \in { "absent", "closed" }
                /\ EntryState("async", k)' = "open"
                /\ async_client_storage'[k] = Len(handles')
       /\ \A g, h \in HandleIds' :
            (/\ handles'[g].headers = handles'[h].headers
             /\ ~handles'[g].is_closed /\ ~handles'[h].is_closed) => g = h
       /\ \A h \in HandleIds' :
            ~handles'[h].is_closed =>
                Get(async_client_storage', handles'[h].headers["X-Service-Name"]) = h]_vars

\* two tasks are both waiting for the response of a send_async for the same
\* name, on the same client, the only async client of that name
C19_Witness ==
    \E i, j \in SenderIds :
        /\ i # j
        /\ frame[i].pc = "request" /\ frame[j].pc = "request"
        /\ frame[i].mode = "async" /\ frame[j].mode = "async"
        /\ sender[i].service_name = sender[j].service_name
        /\ frame[i].client = frame[j].client
        /\ IsOpen(frame[i].client)
        /\ \A h \in HandleIds : KeyOf(h) = sender[i].service_name => h = frame[i].client

====
